---- MODULE Spec2Model ----
(***************************************************************************)
(* mem-flip: the flashcard application's state machine (src/src/main.rs).  *)
(* Strings are sequences of one-character strings; Option<usize> is a      *)
(* sequence of length 0 (None) or 1 (Some(i)); the HashMap topics_map is a *)
(* function from topic names to sequences of Flashcard records.            *)
(***************************************************************************)
EXTENDS Naturals, Sequences, FiniteSets

\* ---------------------------------------------------------------- bounds
\* Longest CreateTopic input the environment types, and the most characters
\* other than whitespace it types into the question and answer of one AddCard.
MaxLen == 2
\* Most whitespace characters it types into the question and answer of one AddCard.
MaxBlank == 1
\* Most topics the store holds.
MaxTopics == 2
\* Most cards one topic holds.
MaxCards == 2

\* ---------------------------------------------------------------- text
\* Characters that key events carry.
Chars == {" ", "a", "j", "k", "n", "p", "q", "s"}
\* Characters the environment types into a text buffer.
TypedChars == {" ", "q"}

\* Unicode scalar value of the characters in use (String's Ord is bytewise).
CodePoint(c) ==
  CASE c = "\n" -> 10
    [] c = " " -> 32
    [] c = "a" -> 97
    [] c = "b" -> 98
    [] c = "j" -> 106
    [] c = "k" -> 107
    [] c = "n" -> 110
    [] c = "p" -> 112
    [] c = "q" -> 113
    [] c = "s" -> 115

\* char::is_whitespace, on the characters in use.
is_whitespace(c) == c \in {" ", "\n"}

RECURSIVE trim_start(_)
trim_start(s) ==
  IF s = <<>> THEN <<>>
  ELSE IF is_whitespace(Head(s)) THEN trim_start(Tail(s)) ELSE s

RECURSIVE trim_end(_)
trim_end(s) ==
  IF s = <<>> THEN <<>>
  ELSE IF is_whitespace(s[Len(s)]) THEN trim_end(SubSeq(s, 1, Len(s) - 1)) ELSE s

\* str::trim
trim(s) == trim_end(trim_start(s))

\* String::push
push(s, c) == Append(s, c)

\* Mutant of pop: the string is cleared (String::clear).
pop_clears(s) == <<>>

\* String::pop, its result dropped: the string without its last character.
pop(s) == IF s = <<>> THEN <<>> ELSE SubSeq(s, 1, Len(s) - 1)

\* a < b in String's ordering: lexicographic by code point.
RECURSIVE StrLess(_, _)
StrLess(a, b) ==
  IF b = <<>> THEN FALSE
  ELSE IF a = <<>> THEN TRUE
  ELSE IF Head(a) # Head(b) THEN CodePoint(Head(a)) < CodePoint(Head(b))
  ELSE StrLess(Tail(a), Tail(b))

RECURSIVE SortNames(_)
SortNames(S) ==
  IF S = {} THEN <<>>
  ELSE LET m == CHOOSE x \in S : \A y \in S \ {x} : StrLess(x, y)
       IN <<m>> \o SortNames(S \ {m})

\* ---------------------------------------------------------------- values
None == <<>>
Some(i) == <<i>>

Flashcard(question, answer) == [question |-> question, answer |-> answer]

TopicSelection == [tag |-> "TopicSelection"]
FlashcardReview(topic, card_index, show_answer) ==
  [tag |-> "FlashcardReview", topic |-> topic, card_index |-> card_index,
   show_answer |-> show_answer]
CreateTopic(input) == [tag |-> "CreateTopic", input |-> input]
AddCard(topic, question_input, answer_input, editing_question) ==
  [tag |-> "AddCard", topic |-> topic, question_input |-> question_input,
   answer_input |-> answer_input, editing_question |-> editing_question]

\* KeyCode
Char(c) == <<"Char", c>>
Enter == <<"Enter">>
Esc == <<"Esc">>
Tab == <<"Tab">>
Backspace == <<"Backspace">>
Up == <<"Up">>
Down == <<"Down">>
Left == <<"Left">>
Right == <<"Right">>
Home == <<"Home">>

KeyCodes ==
  {Char(c) : c \in Chars} \cup {Enter, Esc, Tab, Backspace, Up, Down, Left, Right, Home}

KeyEvent(code, modifiers, kind) ==
  [code |-> code, modifiers |-> modifiers, kind |-> kind]

\* A press of the key code with no modifier.
Press(code) == KeyEvent(code, {}, "Press")

\* The events event::read() returns here: every key code pressed with no
\* modifier, 's' pressed with CONTROL and with SUPER, a release, a repeat, and an
\* event that is not a key event.
Events ==
  {<<"Key", KeyEvent(code, {}, "Press")>> : code \in KeyCodes}
  \cup {<<"Key", KeyEvent(Char("s"), {m}, "Press")>> : m \in {"CONTROL", "SUPER"}}
  \cup {<<"Key", KeyEvent(Enter, {}, "Release")>>,
        <<"Key", KeyEvent(Char("q"), {}, "Repeat")>>,
        <<"Resize">>}

\* ---------------------------------------------------------------- state
VARIABLES
  topics,       \* App.topics.topics_map
  state,        \* App.state
  list_state,   \* App.list_state
  exit,         \* App.exit
  event,        \* the event the last handle_events read, <<>> before the first
  old,          \* the App as it was when that event was read
  panicked,     \* the thread panicked in a handler
  pc,           \* where main is
  terminal,     \* "cooked" before ratatui::init, then "raw", "restored" by ratatui::restore
  app_result,   \* main's app_result: "none" until run returns, then "Ok" or "Err"
  save_result,  \* what save_to_disk returned: "none" until called, then "Ok" or "Err"
  written,      \* the stores save_to_disk was called to write, in order
  main_result,  \* what main returned: "none" until it returns, then "Ok" or "Err"
  file,         \* the persistence file flashcards.json: absent, or what it holds
  script        \* the keys a scripted user has yet to press, <<>> without a script

app == <<topics, state, list_state, exit>>
process == <<pc, terminal, app_result, save_result, written, main_result, file, script>>
vars == <<topics, state, list_state, exit, event, old, panicked, process>>

\* The App as a record, as the handlers take and return it.
Self ==
  [topics |-> topics, state |-> state, list_state |-> list_state, exit |-> exit]

\* ---------------------------------------------------------------- App
RECURSIVE Reverse(_)
Reverse(s) == IF s = <<>> THEN <<>> ELSE Append(Reverse(Tail(s)), Head(s))

\* Mutant of get_sorted_topics: the names in another order than sorted.
get_sorted_topics_unsorted(self) == Reverse(SortNames(DOMAIN self.topics))

get_sorted_topics(self) == SortNames(DOMAIN self.topics)

\* Mutant of update_list_selection: selects the last index, as if the new
\* topic were appended to the list.
update_list_selection_last(self) ==
  LET topics_count == Cardinality(DOMAIN self.topics)
  IN IF topics_count > 0
     THEN [self EXCEPT !.list_state.selected = Some(topics_count - 1)]
     ELSE self

update_list_selection(self) ==
  LET topics_count == Cardinality(DOMAIN self.topics)
  IN IF topics_count > 0
     THEN [self EXCEPT !.list_state.selected = Some(0)]
     ELSE self

\* Mutant of select_next_topic: the index is not reduced modulo the count.
select_next_topic_no_wrap(self) ==
  LET topics_count == Cardinality(DOMAIN self.topics)
      selected == self.list_state.selected
      i == IF selected # None THEN selected[1] + 1 ELSE 0
  IN IF topics_count = 0 THEN self
     ELSE [self EXCEPT !.list_state.selected = Some(i)]

select_next_topic(self) ==
  LET topics_count == Cardinality(DOMAIN self.topics)
      selected == self.list_state.selected
      i == IF selected # None THEN (selected[1] + 1) % topics_count ELSE 0
  IN IF topics_count = 0 THEN self
     ELSE [self EXCEPT !.list_state.selected = Some(i)]

\* Mutant of select_previous_topic: stops at the first topic, no wrap.
select_previous_topic_saturating(self) ==
  LET topics_count == Cardinality(DOMAIN self.topics)
      selected == self.list_state.selected
      i == IF selected # None
           THEN IF selected[1] = 0 THEN 0 ELSE selected[1] - 1
           ELSE 0
  IN IF topics_count = 0 THEN self
     ELSE [self EXCEPT !.list_state.selected = Some(i)]

select_previous_topic(self) ==
  LET topics_count == Cardinality(DOMAIN self.topics)
      selected == self.list_state.selected
      i == IF selected # None
           THEN IF selected[1] = 0 THEN topics_count - 1 ELSE selected[1] - 1
           ELSE 0
  IN IF topics_count = 0 THEN self
     ELSE [self EXCEPT !.list_state.selected = Some(i)]

\* Mutant of new: the first index is selected whether or not there are topics.
new_selects_first(loaded) ==
  [topics |-> loaded,
   state |-> TopicSelection,
   list_state |-> [selected |-> Some(0)],
   exit |-> FALSE]

\* App::new
new(loaded) ==
  [topics |-> loaded,
   state |-> TopicSelection,
   list_state |-> [selected |-> IF DOMAIN loaded # {} THEN Some(0) ELSE None],
   exit |-> FALSE]

\* Mutant of topic_selection_add_card: takes the first topic, not the selected.
topic_selection_add_card_first(self) ==
  LET selected == self.list_state.selected
  IN IF selected # None
     THEN LET topic_name == get_sorted_topics(self)[1]
          IN [self EXCEPT !.state = AddCard(topic_name, <<>>, <<>>, TRUE)]
     ELSE self

\* Mutant of topic_selection_add_card: the name is taken as typed with a
\* blank after it, which is no key of the store.
topic_selection_add_card_unknown(self) ==
  LET selected == self.list_state.selected
  IN IF selected # None
     THEN LET topic_name == get_sorted_topics(self)[selected[1] + 1]
          IN [self EXCEPT !.state = AddCard(Append(topic_name, " "), <<>>, <<>>, TRUE)]
     ELSE self

\* The arm KeyCode::Char('a') of handle_topic_selection_keys.
topic_selection_add_card(self) ==
  LET selected == self.list_state.selected
  IN IF selected # None
     THEN LET topic_name == get_sorted_topics(self)[selected[1] + 1]
          IN [self EXCEPT !.state = AddCard(topic_name, <<>>, <<>>, TRUE)]
     ELSE self

\* Mutant of topic_selection_enter: enters a topic that has no cards.
topic_selection_enter_empty(self) ==
  LET selected == self.list_state.selected
  IN IF selected # None
     THEN LET topic_name == get_sorted_topics(self)[selected[1] + 1]
          IN IF topic_name \in DOMAIN self.topics
             THEN [self EXCEPT !.state = FlashcardReview(topic_name, 0, FALSE)]
             ELSE self
     ELSE self

\* The arm KeyCode::Enter of handle_topic_selection_keys.
topic_selection_enter(self) ==
  LET selected == self.list_state.selected
  IN IF selected # None
     THEN LET topic_name == get_sorted_topics(self)[selected[1] + 1]
          IN IF topic_name \in DOMAIN self.topics /\ self.topics[topic_name] # <<>>
             THEN [self EXCEPT !.state = FlashcardReview(topic_name, 0, FALSE)]
             ELSE self
     ELSE self

\* Mutant of handle_topic_selection_keys: Home has a rule, it selects the
\* first topic.
handle_topic_selection_keys_home(self, key_event) ==
  LET code == key_event.code
  IN IF code = Char("q") THEN [self EXCEPT !.exit = TRUE]
     ELSE IF code = Char("n") THEN [self EXCEPT !.state = CreateTopic(<<>>)]
     ELSE IF code = Char("a") THEN topic_selection_add_card(self)
     ELSE IF code = Enter THEN topic_selection_enter(self)
     ELSE IF code \in {Down, Char("j")} THEN select_next_topic(self)
     ELSE IF code \in {Up, Char("k")} THEN select_previous_topic(self)
     ELSE IF code = Home THEN update_list_selection(self)
     ELSE self

handle_topic_selection_keys(self, key_event) ==
  LET code == key_event.code
  IN IF code = Char("q") THEN [self EXCEPT !.exit = TRUE]
     ELSE IF code = Char("n") THEN [self EXCEPT !.state = CreateTopic(<<>>)]
     ELSE IF code = Char("a") THEN topic_selection_add_card(self)
     ELSE IF code = Enter THEN topic_selection_enter(self)
     ELSE IF code \in {Down, Char("j")} THEN select_next_topic(self)
     ELSE IF code \in {Up, Char("k")} THEN select_previous_topic(self)
     ELSE self

\* Mutant of next_index: the index after the last card is not wrapped to 0.
next_index_no_wrap(card_index, cards) ==
  IF card_index + 1 < Len(cards) THEN card_index + 1 ELSE card_index

\* let next_index and let prev_index of handle_flashcard_keys.
next_index(card_index, cards) == (card_index + 1) % Len(cards)

\* Mutant of prev_index: stops at the first card, no wrap to the last.
prev_index_saturating(card_index, cards) ==
  IF card_index = 0 THEN 0 ELSE card_index - 1

prev_index(card_index, cards) ==
  IF card_index = 0 THEN Len(cards) - 1 ELSE card_index - 1

\* Mutant of handle_flashcard_keys: the flip key shows the answer and a
\* second press does not hide it.
handle_flashcard_keys_flip_shows(self, key_event, topic, card_index, show_answer) ==
  LET code == key_event.code
  IN IF code \in {Char("q"), Esc} THEN [self EXCEPT !.state = TopicSelection]
     ELSE IF code \in {Char(" "), Enter}
     THEN [self EXCEPT !.state = FlashcardReview(topic, card_index, TRUE)]
     ELSE IF code \in {Char("n"), Right} THEN
       IF topic \in DOMAIN self.topics
       THEN [self EXCEPT !.state =
               FlashcardReview(topic, next_index(card_index, self.topics[topic]), FALSE)]
       ELSE self
     ELSE IF code \in {Char("p"), Left} THEN
       IF topic \in DOMAIN self.topics
       THEN [self EXCEPT !.state =
               FlashcardReview(topic, prev_index(card_index, self.topics[topic]), FALSE)]
       ELSE self
     ELSE self

\* Mutant of handle_flashcard_keys: 'q' quits the program, as it does in
\* TopicSelection.
handle_flashcard_keys_q_exits(self, key_event, topic, card_index, show_answer) ==
  LET code == key_event.code
  IN IF code = Char("q") THEN [self EXCEPT !.exit = TRUE]
     ELSE IF code = Esc THEN [self EXCEPT !.state = TopicSelection]
     ELSE IF code \in {Char(" "), Enter}
     THEN [self EXCEPT !.state = FlashcardReview(topic, card_index, ~show_answer)]
     ELSE IF code \in {Char("n"), Right} THEN
       IF topic \in DOMAIN self.topics
       THEN [self EXCEPT !.state =
               FlashcardReview(topic, next_index(card_index, self.topics[topic]), FALSE)]
       ELSE self
     ELSE IF code \in {Char("p"), Left} THEN
       IF topic \in DOMAIN self.topics
       THEN [self EXCEPT !.state =
               FlashcardReview(topic, prev_index(card_index, self.topics[topic]), FALSE)]
       ELSE self
     ELSE self

handle_flashcard_keys(self, key_event, topic, card_index, show_answer) ==
  LET code == key_event.code
  IN IF code \in {Char("q"), Esc} THEN [self EXCEPT !.state = TopicSelection]
     ELSE IF code \in {Char(" "), Enter}
     THEN [self EXCEPT !.state = FlashcardReview(topic, card_index, ~show_answer)]
     ELSE IF code \in {Char("n"), Right} THEN
       IF topic \in DOMAIN self.topics
       THEN [self EXCEPT !.state =
               FlashcardReview(topic, next_index(card_index, self.topics[topic]), FALSE)]
       ELSE self
     ELSE IF code \in {Char("p"), Left} THEN
       IF topic \in DOMAIN self.topics
       THEN [self EXCEPT !.state =
               FlashcardReview(topic, prev_index(card_index, self.topics[topic]), FALSE)]
       ELSE self
     ELSE self

\* usize::MAX, the value 0 - 1 wraps to where overflow is not checked. It is
\* 2^64 - 1 on the 64-bit targets; the model writes the largest integer TLC
\* holds for it and only compares it.
UsizeMax == 2147483647

\* The profiles the program is built with: debug checks arithmetic overflow
\* and panics on it, release wraps.
Builds == {"debug", "release"}

\* handle_flashcard_keys with the arithmetic of next_index and prev_index as
\* the build carries it out: a remainder by cards.len() = 0 panics in every
\* build, and cards.len() - 1 on no cards panics in debug and wraps in release.
flashcard_keys_outcome(self, key_event, topic, card_index, show_answer, build) ==
  LET code == key_event.code
      present == topic \in DOMAIN self.topics
      panic == [panicked |-> TRUE, app |-> self]
  IN IF code \in {Char("n"), Right} /\ present /\ Len(self.topics[topic]) = 0
     THEN panic
     ELSE IF /\ code \in {Char("p"), Left} /\ present
             /\ card_index = 0 /\ Len(self.topics[topic]) = 0
     THEN IF build = "debug" THEN panic
          ELSE [panicked |-> FALSE,
                app |-> [self EXCEPT !.state = FlashcardReview(topic, UsizeMax, FALSE)]]
     ELSE [panicked |-> FALSE,
           app |-> handle_flashcard_keys(self, key_event, topic, card_index,
                                         show_answer)]

\* Mutant of insert: an entry that is present is kept (entry().or_insert()).
insert_keep(map, key, value) ==
  [k \in DOMAIN map \cup {key} |-> IF k \in DOMAIN map THEN map[k] ELSE value]

\* HashMap::insert: the entry is added, or replaced when the key is present.
insert(map, key, value) ==
  [k \in DOMAIN map \cup {key} |-> IF k = key THEN value ELSE map[k]]

\* Mutant of create_topic_enter: tests the input before trimming it.
create_topic_enter_untrimmed(self, input) ==
  IF input # <<>>
  THEN update_list_selection(
         [self EXCEPT !.topics = insert(self.topics, trim(input), <<>>),
                      !.state = TopicSelection])
  ELSE self

\* The arm KeyCode::Enter of handle_create_topic_keys.
create_topic_enter(self, input) ==
  IF trim(input) # <<>>
  THEN update_list_selection(
         [self EXCEPT !.topics = insert(self.topics, trim(input), <<>>),
                      !.state = TopicSelection])
  ELSE self

\* Mutant of handle_create_topic_keys: Esc resets the selection, as the
\* commit does with update_list_selection.
handle_create_topic_keys_esc_reselects(self, key_event, current_input) ==
  LET code == key_event.code
      input == current_input
  IN IF code = Esc THEN update_list_selection([self EXCEPT !.state = TopicSelection])
     ELSE IF code = Enter THEN create_topic_enter(self, input)
     ELSE IF code[1] = "Char"
     THEN [self EXCEPT !.state = CreateTopic(push(input, code[2]))]
     ELSE IF code = Backspace
     THEN [self EXCEPT !.state = CreateTopic(pop(input))]
     ELSE self

handle_create_topic_keys(self, key_event, current_input) ==
  LET code == key_event.code
      input == current_input
  IN IF code = Esc THEN [self EXCEPT !.state = TopicSelection]
     ELSE IF code = Enter THEN create_topic_enter(self, input)
     ELSE IF code[1] = "Char"
     THEN [self EXCEPT !.state = CreateTopic(push(input, code[2]))]
     ELSE IF code = Backspace
     THEN [self EXCEPT !.state = CreateTopic(pop(input))]
     ELSE self

\* The guard of the save arm: Char('s') with CONTROL or SUPER among the modifiers.
is_save_combo(key_event) ==
  /\ key_event.code = Char("s")
  /\ key_event.modifiers \cap {"CONTROL", "SUPER"} # {}

\* Mutant of add_card_save: saves when either field has text.
add_card_save_either(self, topic, question, answer, editing_question) ==
  IF trim(question) # <<>> \/ trim(answer) # <<>>
  THEN LET flashcard == Flashcard(trim(question), trim(answer))
           cards == IF topic \in DOMAIN self.topics
                    THEN [self.topics EXCEPT ![topic] = Append(@, flashcard)]
                    ELSE self.topics
       IN [self EXCEPT !.topics = cards, !.state = TopicSelection]
  ELSE self

\* Mutant of add_card_save: stores the fields as typed, not trimmed.
add_card_save_untrimmed(self, topic, question, answer, editing_question) ==
  IF trim(question) # <<>> /\ trim(answer) # <<>>
  THEN LET flashcard == Flashcard(question, answer)
           cards == IF topic \in DOMAIN self.topics
                    THEN [self.topics EXCEPT ![topic] = Append(@, flashcard)]
                    ELSE self.topics
       IN [self EXCEPT !.topics = cards, !.state = TopicSelection]
  ELSE self

\* Mutant of add_card_save: a rejected save falls through to the arm
\* KeyCode::Char(c) and the 's' is typed.
add_card_save_falls_through(self, topic, question, answer, editing_question) ==
  IF trim(question) # <<>> /\ trim(answer) # <<>>
  THEN LET flashcard == Flashcard(trim(question), trim(answer))
           cards == IF topic \in DOMAIN self.topics
                    THEN [self.topics EXCEPT ![topic] = Append(@, flashcard)]
                    ELSE self.topics
       IN [self EXCEPT !.topics = cards, !.state = TopicSelection]
  ELSE IF editing_question
  THEN [self EXCEPT !.state = AddCard(topic, push(question, "s"), answer, editing_question)]
  ELSE [self EXCEPT !.state = AddCard(topic, question, push(answer, "s"), editing_question)]

\* Mutant of add_card_save: the selection is reset after the save, as
\* the CreateTopic commit does with update_list_selection.
add_card_save_reselects(self, topic, question, answer, editing_question) ==
  IF trim(question) # <<>> /\ trim(answer) # <<>>
  THEN LET flashcard == Flashcard(trim(question), trim(answer))
           cards == IF topic \in DOMAIN self.topics
                    THEN [self.topics EXCEPT ![topic] = Append(@, flashcard)]
                    ELSE self.topics
       IN update_list_selection([self EXCEPT !.topics = cards, !.state = TopicSelection])
  ELSE self

\* The arm KeyCode::Char('s') under the guard of handle_add_card_keys.
add_card_save(self, topic, question, answer, editing_question) ==
  IF trim(question) # <<>> /\ trim(answer) # <<>>
  THEN LET flashcard == Flashcard(trim(question), trim(answer))
           cards == IF topic \in DOMAIN self.topics
                    THEN [self.topics EXCEPT ![topic] = Append(@, flashcard)]
                    ELSE self.topics
       IN [self EXCEPT !.topics = cards, !.state = TopicSelection]
  ELSE self

\* Mutant of handle_add_card_keys: Enter breaks the line of the question,
\* whichever buffer is edited.
handle_add_card_keys_enter_question(self, key_event, topic, question, answer, editing_question) ==
  LET code == key_event.code
  IN IF code = Esc THEN [self EXCEPT !.state = TopicSelection]
     ELSE IF code = Tab
     THEN [self EXCEPT !.state = AddCard(topic, question, answer, ~editing_question)]
     ELSE IF code = Enter
     THEN [self EXCEPT !.state =
             AddCard(topic, push(question, "\n"), answer, editing_question)]
     ELSE IF is_save_combo(key_event)
     THEN add_card_save(self, topic, question, answer, editing_question)
     ELSE IF code[1] = "Char" THEN
       IF editing_question
       THEN [self EXCEPT !.state =
               AddCard(topic, push(question, code[2]), answer, editing_question)]
       ELSE [self EXCEPT !.state =
               AddCard(topic, question, push(answer, code[2]), editing_question)]
     ELSE IF code = Backspace THEN
       IF editing_question
       THEN [self EXCEPT !.state =
               AddCard(topic, pop(question), answer, editing_question)]
       ELSE [self EXCEPT !.state =
               AddCard(topic, question, pop(answer), editing_question)]
     ELSE self

handle_add_card_keys(self, key_event, topic, question, answer, editing_question) ==
  LET code == key_event.code
  IN IF code = Esc THEN [self EXCEPT !.state = TopicSelection]
     ELSE IF code = Tab
     THEN [self EXCEPT !.state = AddCard(topic, question, answer, ~editing_question)]
     ELSE IF code = Enter THEN
       IF editing_question
       THEN [self EXCEPT !.state =
               AddCard(topic, push(question, "\n"), answer, editing_question)]
       ELSE [self EXCEPT !.state =
               AddCard(topic, question, push(answer, "\n"), editing_question)]
     ELSE IF is_save_combo(key_event)
     THEN add_card_save(self, topic, question, answer, editing_question)
     ELSE IF code[1] = "Char" THEN
       IF editing_question
       THEN [self EXCEPT !.state =
               AddCard(topic, push(question, code[2]), answer, editing_question)]
       ELSE [self EXCEPT !.state =
               AddCard(topic, question, push(answer, code[2]), editing_question)]
     ELSE IF code = Backspace THEN
       IF editing_question
       THEN [self EXCEPT !.state =
               AddCard(topic, pop(question), answer, editing_question)]
       ELSE [self EXCEPT !.state =
               AddCard(topic, question, pop(answer), editing_question)]
     ELSE self

\* handle_key_event: the match on the state routes the key to its handler.
handle_key_event(self, key_event) ==
  CASE self.state.tag = "TopicSelection" ->
         handle_topic_selection_keys(self, key_event)
    [] self.state.tag = "FlashcardReview" ->
         handle_flashcard_keys(self, key_event, self.state.topic,
                               self.state.card_index, self.state.show_answer)
    [] self.state.tag = "CreateTopic" ->
         handle_create_topic_keys(self, key_event, self.state.input)
    [] self.state.tag = "AddCard" ->
         handle_add_card_keys(self, key_event, self.state.topic,
                              self.state.question_input, self.state.answer_input,
                              self.state.editing_question)

\* ---------------------------------------------------------------- loading
\* A topic and a card of a persisted file that no key sequence types: a name
\* outside the typed characters, a card with an empty answer.
LoadedNames == {<<"b">>}
LoadedCard == Flashcard(<<"b">>, <<>>)
LoadedCards == {<<LoadedCard>>}

\* What main loads: the empty map (no file, bad data) or the file's map.
LoadedTopics ==
  UNION {[names -> LoadedCards] : names \in SUBSET LoadedNames}

\* serde_json's text of one character of a string: the line break, the quote
\* and the backslash are escaped.
json_char(c) ==
  IF c = "\n" THEN <<"\\", "n">>
  ELSE IF c \in {"\"", "\\"} THEN <<"\\", c>>
  ELSE <<c>>

\* The text of a string between its quotes, as Serialize writes it.
RECURSIVE json_string(_)
json_string(s) ==
  IF s = <<>> THEN <<>> ELSE json_char(Head(s)) \o json_string(Tail(s))

\* The string that Deserialize reads from the text between two quotes.
RECURSIVE parse_string(_)
parse_string(text) ==
  IF text = <<>> THEN <<>>
  ELSE IF Head(text) = "\\" /\ Len(text) >= 2
  THEN <<IF text[2] = "n" THEN "\n" ELSE text[2]>> \o parse_string(Tail(Tail(text)))
  ELSE <<Head(text)>> \o parse_string(Tail(text))

\* Mutant of to_json: strings are written as they are, not escaped.
to_json_unescaped(map) == [topics_map |-> map]

\* The document serde_json::to_writer_pretty writes for Topics: one field
\* topics_map, an object from each name's text to the array of its cards'
\* question and answer texts.
to_json(map) ==
  [topics_map |->
     [key \in {json_string(name) : name \in DOMAIN map} |->
        LET name == CHOOSE n \in DOMAIN map : json_string(n) = key
        IN [i \in 1..Len(map[name]) |->
              [question |-> json_string(map[name][i].question),
               answer |-> json_string(map[name][i].answer)]]]]

\* The map serde_json::from_reader reads from such a document.
from_json(document) ==
  LET object == document.topics_map
  IN [name \in {parse_string(key) : key \in DOMAIN object} |->
        LET key == CHOOSE k \in DOMAIN object : parse_string(k) = name
        IN [i \in 1..Len(object[key]) |->
              Flashcard(parse_string(object[key][i].question),
                        parse_string(object[key][i].answer))]]

\* The file: absent, holding text that does not deserialize to Topics (no
\* JSON, cut short, or JSON of another shape), or holding such a document.
NoFile == [kind |-> "absent"]
BadData == [kind |-> "malformed"]
JsonFile(document) == [kind |-> "json", document |-> document]

\* The files main finds at startup.
Files == {NoFile, BadData} \cup {JsonFile(to_json(map)) : map \in LoadedTopics}

\* The let topics of main: the map of the file, or the empty map when
\* File::open fails or from_reader fails.
load(f) == IF f.kind = "json" THEN from_json(f.document) ELSE <<>>

\* ---------------------------------------------------------------- steps
IsKey(ev) == Len(ev) = 2 /\ ev[1] = "Key"
\* Mutant of IsPress: the kind of the key event is not tested.
IsPress_any_kind(ev) == IsKey(ev)

IsPress(ev) == IsKey(ev) /\ ev[2].kind = "Press"

\* Number of whitespace characters of s.
Blanks(s) == Cardinality({i \in 1..Len(s) : is_whitespace(s[i])})

\* The events the environment sends in the current state: it types characters
\* of TypedChars, text stays within MaxLen and MaxBlank, and the store within
\* MaxTopics topics of MaxCards cards.
WithinBounds(ev) ==
  IF ~IsPress(ev) THEN TRUE
  ELSE LET key_event == ev[2]
           code == key_event.code
       IN CASE state.tag = "CreateTopic" ->
                 /\ code[1] = "Char" =>
                      code[2] \in TypedChars /\ Len(state.input) < MaxLen
                 /\ (code = Enter /\ trim(state.input) # <<>>) =>
                      \/ trim(state.input) \in DOMAIN topics
                      \/ Cardinality(DOMAIN topics) < MaxTopics
            [] state.tag = "AddCard" ->
                 LET typed == state.question_input \o state.answer_input
                     room(c) == IF is_whitespace(c)
                                THEN Blanks(typed) < MaxBlank
                                ELSE Len(typed) - Blanks(typed) < MaxLen
                 IN /\ (code[1] = "Char" /\ ~is_save_combo(key_event)) =>
                         code[2] \in TypedChars /\ room(code[2])
                    /\ code = Enter => room("\n")
                    /\ (is_save_combo(key_event) /\ state.topic \in DOMAIN topics) =>
                         Len(topics[state.topic]) < MaxCards
            [] OTHER -> TRUE

\* event::read() returns ev while the loop of run is running.
Read(ev) ==
  /\ pc = "run"
  /\ ~exit
  /\ ~panicked
  /\ UNCHANGED process
  /\ ev \in Events
  /\ WithinBounds(ev)
  /\ event' = ev
  /\ old' = Self

Becomes(self) ==
  /\ topics' = self.topics
  /\ state' = self.state
  /\ list_state' = self.list_state
  /\ exit' = self.exit

\* handle_events on an event that is not a key press: nothing is routed.
IgnoredEvent ==
  \E ev \in Events : Read(ev) /\ ~IsPress(ev) /\ UNCHANGED <<app, panicked>>

\* handle_events and handle_key_event, one action for each arm of the match.
TopicSelectionKey ==
  \E ev \in Events :
    /\ Read(ev) /\ IsPress(ev) /\ state.tag = "TopicSelection"
    /\ Becomes(handle_topic_selection_keys(Self, ev[2]))
    /\ UNCHANGED panicked

FlashcardReviewKey ==
  \E ev \in Events :
    /\ Read(ev) /\ IsPress(ev) /\ state.tag = "FlashcardReview"
    /\ \E build \in Builds :
         LET outcome == flashcard_keys_outcome(Self, ev[2], state.topic,
                                               state.card_index, state.show_answer,
                                               build)
         IN Becomes(outcome.app) /\ panicked' = outcome.panicked

CreateTopicKey ==
  \E ev \in Events :
    /\ Read(ev) /\ IsPress(ev) /\ state.tag = "CreateTopic"
    /\ Becomes(handle_create_topic_keys(Self, ev[2], state.input))
    /\ UNCHANGED panicked

AddCardKey ==
  \E ev \in Events :
    /\ Read(ev) /\ IsPress(ev) /\ state.tag = "AddCard"
    /\ Becomes(handle_add_card_keys(Self, ev[2], state.topic, state.question_input,
                                    state.answer_input, state.editing_question))
    /\ UNCHANGED panicked

\* main has called ratatui::init, terminal.clear and App::new, and is in run.
InRun ==
  /\ pc = "run"
  /\ terminal = "raw"
  /\ app_result = "none"
  /\ save_result = "none"
  /\ written = <<>>
  /\ main_result = "none"

Init ==
  \E loaded \in LoadedTopics :
    /\ topics = new(loaded).topics
    /\ state = new(loaded).state
    /\ list_state = new(loaded).list_state
    /\ exit = new(loaded).exit
    /\ event = <<>>
    /\ old = new(loaded)
    /\ panicked = FALSE
    /\ InRun
    /\ file = JsonFile(to_json(loaded))
    /\ script = <<>>

Next ==
  \/ IgnoredEvent
  \/ TopicSelectionKey
  \/ FlashcardReviewKey
  \/ CreateTopicKey
  \/ AddCardKey

Spec == Init /\ [][Next]_vars

\* ------------------------------------------------- handle_flashcard_keys
\* handle_flashcard_keys as a function of its inputs: the App and the
\* fields of a FlashcardReview it is called with. The stores have up to two
\* topics of 0..MaxCards cards; the reviewed topic may be missing from the
\* store (the None of topics_map.get) and may have no cards, and card_index
\* is an index of its cards when it has some.
ReviewNames == {<<"b">>, <<"q">>}

ReviewCards(n) == [i \in 1..n |-> LoadedCard]

ReviewStores ==
  UNION {[names -> {ReviewCards(n) : n \in 0..MaxCards}] : names \in SUBSET ReviewNames}

InitReviewKeys ==
  \E store \in ReviewStores, topic \in ReviewNames,
     card_index \in 0..(MaxCards - 1), show_answer \in BOOLEAN :
    /\ (topic \in DOMAIN store /\ store[topic] # <<>>) => card_index < Len(store[topic])
    /\ topics = store
    /\ state = FlashcardReview(topic, card_index, show_answer)
    /\ list_state = new(store).list_state
    /\ exit = FALSE
    /\ event = <<>>
    /\ old = [new(store) EXCEPT !.state = FlashcardReview(topic, card_index, show_answer)]
    /\ panicked = FALSE
    /\ InRun
    /\ file = JsonFile(to_json(store))
    /\ script = <<>>

\* One call of the handler on the inputs drawn.
ReviewKeysCall == event = <<>> /\ FlashcardReviewKey

NextReviewKeys == ReviewKeysCall

SpecReviewKeys == InitReviewKeys /\ [][NextReviewKeys]_vars

\* ------------------------------------------------------------------ main
\* main from its first line to its return. The history variables event and
\* old are not kept here.
\* handle_events: a key press is routed, any other event is dropped.
handle_events(self, ev) ==
  IF IsPress(ev) THEN handle_key_event(self, ev[2]) ELSE self

\* Mutant of run_continues: the loop of run does not test the exit flag.
run_continues_after_exit(self) == TRUE

\* The condition of the loop of run: while !self.exit.
run_continues(self) == ~self.exit

\* Mutant of main_return: a failed save becomes main's result, as
\* app.save_to_disk()? would make it.
main_return_save_error(loop_result, saved) ==
  IF saved = "Err" THEN "Err" ELSE loop_result

\* The last line of main: app_result is returned, whatever the save returned.
main_return(loop_result, saved) == loop_result

InitMain ==
  /\ topics = new(<<>>).topics
  /\ state = new(<<>>).state
  /\ list_state = new(<<>>).list_state
  /\ exit = new(<<>>).exit
  /\ event = <<>>
  /\ old = new(<<>>)
  /\ panicked = FALSE
  /\ pc = "init"
  /\ terminal = "cooked"
  /\ app_result = "none"
  /\ save_result = "none"
  /\ written = <<>>
  /\ main_result = "none"
  /\ file \in Files
  /\ script = <<>>

\* let mut terminal = ratatui::init();
ratatui_init ==
  /\ pc = "init"
  /\ terminal' = "raw"
  /\ pc' = "clear"
  /\ UNCHANGED <<app, event, old, panicked, app_result, save_result, written, main_result, file, script>>

\* terminal.clear()? succeeds.
terminal_clear_ok ==
  /\ pc = "clear"
  /\ pc' = "load"
  /\ UNCHANGED <<app, event, old, panicked, terminal, app_result, save_result, written,
                 main_result, file, script>>

\* terminal.clear()? fails: the ? returns the error from main.
terminal_clear_err ==
  /\ pc = "clear"
  /\ main_result' = "Err"
  /\ pc' = "done"
  /\ UNCHANGED <<app, event, old, panicked, terminal, app_result, save_result, written, file, script>>

\* The topics are loaded, or empty without a readable file, and App::new
\* makes the App.
load_topics ==
  /\ pc = "load"
  /\ Becomes(new(load(file)))
  /\ pc' = "run"
  /\ UNCHANGED <<event, old, panicked, terminal, app_result, save_result, written,
                 main_result, file, script>>

\* One turn of the loop of run: draw, then handle_events on the event read.
run_iteration ==
  /\ pc = "run"
  /\ ~panicked
  /\ run_continues(Self)
  /\ \E ev \in Events : WithinBounds(ev) /\ Becomes(handle_events(Self, ev))
  /\ UNCHANGED <<event, old, panicked, process>>

\* terminal.draw(..)? fails in a turn of the loop: run returns the error.
draw_err ==
  /\ pc = "run"
  /\ run_continues(Self)
  /\ app_result' = "Err"
  /\ pc' = "restore"
  /\ UNCHANGED <<app, event, old, panicked, terminal, save_result, written, main_result, file, script>>

\* event::read()? fails in handle_events: run returns the error.
read_err ==
  /\ pc = "run"
  /\ run_continues(Self)
  /\ app_result' = "Err"
  /\ pc' = "restore"
  /\ UNCHANGED <<app, event, old, panicked, terminal, save_result, written, main_result, file, script>>

\* The loop of run ends on its condition: run returns Ok(()).
run_exit ==
  /\ pc = "run"
  /\ ~run_continues(Self)
  /\ app_result' = "Ok"
  /\ pc' = "restore"
  /\ UNCHANGED <<app, event, old, panicked, terminal, save_result, written, main_result, file, script>>

\* ratatui::restore();
ratatui_restore ==
  /\ pc = "restore"
  /\ terminal' = "restored"
  /\ pc' = "save"
  /\ UNCHANGED <<app, event, old, panicked, app_result, save_result, written, main_result, file, script>>

\* app.save_to_disk() creates the file and writes the store.
save_to_disk_ok ==
  /\ pc = "save"
  /\ written' = Append(written, topics)
  /\ file' = JsonFile(to_json(topics))
  /\ save_result' = "Ok"
  /\ pc' = "return"
  /\ UNCHANGED <<app, event, old, panicked, terminal, app_result, main_result, script>>

\* app.save_to_disk() fails and the error is printed: in File::create, and
\* the file is as it was, or in the write, and the file holds text cut short.
save_to_disk_err ==
  /\ pc = "save"
  /\ written' = Append(written, topics)
  /\ file' \in {file, BadData}
  /\ save_result' = "Err"
  /\ pc' = "return"
  /\ UNCHANGED <<app, event, old, panicked, terminal, app_result, main_result, script>>

\* app_result
main_returns ==
  /\ pc = "return"
  /\ main_result' = main_return(app_result, save_result)
  /\ pc' = "done"
  /\ UNCHANGED <<app, event, old, panicked, terminal, app_result, save_result, written, file, script>>

NextMain ==
  \/ ratatui_init
  \/ terminal_clear_ok
  \/ terminal_clear_err
  \/ load_topics
  \/ run_iteration
  \/ draw_err
  \/ read_err
  \/ run_exit
  \/ ratatui_restore
  \/ save_to_disk_ok
  \/ save_to_disk_err
  \/ main_returns

SpecMain == InitMain /\ [][NextMain]_vars

\* -------------------------------------------------------------- scenario
\* main with a user who presses the keys of one session, in order, on a
\* store that loads empty: the topic "math" is created, the card "2+2?" /
\* "4" is added to it, its review is entered and the card flipped; then the
\* user quits. Terminal and file I/O fail or succeed as in SpecMain.
RECURSIVE Typing(_)
Typing(text) ==
  IF text = <<>> THEN <<>> ELSE <<Press(Char(Head(text)))>> \o Typing(Tail(text))

Math == <<"m", "a", "t", "h">>
MathQuestion == <<"2", "+", "2", "?">>
MathAnswer == <<"4">>
MathStore == [name \in {Math} |-> <<Flashcard(MathQuestion, MathAnswer)>>]

ScenarioKeys ==
  <<Press(Char("n"))>> \o Typing(Math) \o <<Press(Enter)>>
  \o <<Press(Char("a"))>> \o Typing(MathQuestion) \o <<Press(Tab)>> \o Typing(MathAnswer)
  \o <<KeyEvent(Char("s"), {"CONTROL"}, "Press")>>
  \o <<Press(Enter), Press(Char(" "))>>

\* 'q' leaves the review, 'q' in TopicSelection sets the exit flag.
QuitKeys == <<Press(Char("q")), Press(Char("q"))>>

InitScenario ==
  /\ topics = new(<<>>).topics
  /\ state = new(<<>>).state
  /\ list_state = new(<<>>).list_state
  /\ exit = new(<<>>).exit
  /\ event = <<>>
  /\ old = new(<<>>)
  /\ panicked = FALSE
  /\ pc = "init"
  /\ terminal = "cooked"
  /\ app_result = "none"
  /\ save_result = "none"
  /\ written = <<>>
  /\ main_result = "none"
  /\ file \in {f \in Files : load(f) = <<>>}
  /\ script = ScenarioKeys \o QuitKeys

\* One turn of the loop of run on the next key of the script.
scripted_iteration ==
  /\ pc = "run"
  /\ ~panicked
  /\ run_continues(Self)
  /\ script # <<>>
  /\ Becomes(handle_events(Self, <<"Key", Head(script)>>))
  /\ script' = Tail(script)
  /\ UNCHANGED <<event, old, panicked, pc, terminal, app_result, save_result, written,
                 main_result, file>>

NextScenario ==
  \/ ratatui_init
  \/ terminal_clear_ok
  \/ terminal_clear_err
  \/ load_topics
  \/ scripted_iteration
  \/ draw_err
  \/ read_err
  \/ run_exit
  \/ ratatui_restore
  \/ save_to_disk_ok
  \/ save_to_disk_err
  \/ main_returns

SpecScenario == InitScenario /\ [][NextScenario]_vars

\* ---------------------------------------------------------------- claims
\* The last event was a press of the key code.
Pressed(code) == IsPress(event) /\ event[2].code = code
\* The last event was a press of the save-combo.
PressedSave == IsPress(event) /\ is_save_combo(event[2])

\* The name that i names precede in String's ordering: the name at index i
\* of the alphabetically sorted list of the map's names.
NameAt(map, i) ==
  CHOOSE name \in DOMAIN map :
    Cardinality({other \in DOMAIN map : StrLess(other, name)}) = i

\* Every entry of the map before, except that of name, is in map unchanged.
OthersKept(before, map, name) ==
  \A other \in DOMAIN before \ {name} :
    other \in DOMAIN map /\ map[other] = before[other]

\* Enter was pressed in CreateTopic on a buffer that trims to a name.
CreateCommit ==
  /\ old.state.tag = "CreateTopic"
  /\ Pressed(Enter)
  /\ trim(old.state.input) # <<>>

\* The save-combo was pressed in AddCard on buffers that both trim to text.
AddCommit ==
  /\ old.state.tag = "AddCard"
  /\ PressedSave
  /\ trim(old.state.question_input) # <<>>
  /\ trim(old.state.answer_input) # <<>>

\* C1: the selection is None exactly when the store has no topics, and else
\* Some(i) with 0 <= i < number of topics, so that indexing the sorted name
\* list with it is in range.
C1_SelectionInRange ==
  LET topics_count == Cardinality(DOMAIN topics)
      selected == list_state.selected
  IN /\ selected = None <=> topics_count = 0
     /\ selected # None =>
          /\ selected[1] \in 0..(topics_count - 1)
          /\ selected[1] + 1 \in DOMAIN get_sorted_topics(Self)

\* C1 witness: down was pressed on the last of two topics and the selection
\* wrapped to the first.
C1_Witness ==
  /\ old.state.tag = "TopicSelection"
  /\ Pressed(Down)
  /\ Cardinality(DOMAIN topics) = 2
  /\ old.list_state.selected = Some(1)
  /\ list_state.selected = Some(0)

\* C2: in FlashcardReview the topic is a key of the store, has cards, and
\* card_index is an index of its cards.
C2_ReviewCardInRange ==
  state.tag = "FlashcardReview" =>
    /\ state.topic \in DOMAIN topics
    /\ topics[state.topic] # <<>>
    /\ state.card_index \in 0..(Len(topics[state.topic]) - 1)

\* C2 witness: the next key was pressed on the last of two cards.
C2_Witness ==
  /\ old.state.tag = "FlashcardReview"
  /\ Pressed(Right)
  /\ old.state.card_index = 1
  /\ state.tag = "FlashcardReview"
  /\ state.card_index = 0
  /\ Len(topics[state.topic]) = 2

\* C3: an event that changed the store was Enter in CreateTopic on a buffer
\* with a non-empty trimmed value, or the save-combo in AddCard on buffers
\* with non-empty trimmed values.
C3_StoreChangesOnlyOnCommit ==
  topics # old.topics => CreateCommit \/ AddCommit

\* C3 witness: a card commit changed the store.
C3_Witness ==
  /\ AddCommit
  /\ topics # old.topics
  /\ Cardinality(DOMAIN topics) = 2

C5_RecreateDiscardsCards ==
  (CreateCommit /\ trim(old.state.input) \in DOMAIN old.topics) =>
    /\ topics[trim(old.state.input)] = <<>>
    /\ DOMAIN topics = DOMAIN old.topics

\* C5 witness: a topic with two cards was created again.
C5_Witness ==
  /\ CreateCommit
  /\ trim(old.state.input) \in DOMAIN old.topics
  /\ Len(old.topics[trim(old.state.input)]) = 2
  /\ topics[trim(old.state.input)] = <<>>

\* C6: Enter in CreateTopic on an empty or whitespace-only buffer changes
\* nothing: store, mode, buffer and selection stay.
C6_BlankTopicRejected ==
  (old.state.tag = "CreateTopic" /\ Pressed(Enter) /\ trim(old.state.input) = <<>>) =>
    /\ topics = old.topics
    /\ state = old.state
    /\ list_state = old.list_state
    /\ exit = old.exit

\* C6 witness: Enter was pressed on a buffer of two blanks.
C6_Witness ==
  /\ old.state.tag = "CreateTopic"
  /\ Pressed(Enter)
  /\ old.state.input = <<" ", " ">>
  /\ state = CreateTopic(<<" ", " ">>)

\* C7: the save-combo in AddCard on buffers with non-empty trimmed values
\* appends one card of the trimmed question and answer to the end of the
\* topic's cards, keeps every other topic, and moves to TopicSelection.
C7_AddCardCommit ==
  AddCommit =>
    LET topic == old.state.topic
        flashcard == Flashcard(trim(old.state.question_input),
                               trim(old.state.answer_input))
    IN /\ DOMAIN topics = DOMAIN old.topics
       /\ topic \in DOMAIN topics
       /\ topics[topic] = Append(old.topics[topic], flashcard)
       /\ OthersKept(old.topics, topics, topic)
       /\ state = TopicSelection

\* C7 witness: Control+'s' on a question typed with a blank around it
\* added a second card to a topic, after a first card that differs from it.
C7_Witness ==
  /\ AddCommit
  /\ "CONTROL" \in event[2].modifiers
  /\ old.state.question_input # trim(old.state.question_input)
  /\ Len(topics[old.state.topic]) = 2
  /\ topics[old.state.topic][1] # topics[old.state.topic][2]

\* C8: the save-combo in AddCard when the trimmed question or the trimmed
\* answer is empty changes nothing: store, topic, both buffers and
\* editing_question stay.
C8_BlankCardRejected ==
  (/\ old.state.tag = "AddCard"
   /\ PressedSave
   /\ trim(old.state.question_input) = <<>> \/ trim(old.state.answer_input) = <<>>) =>
    /\ topics = old.topics
    /\ state = old.state
    /\ list_state = old.list_state
    /\ exit = old.exit

\* C8 witness: the save-combo on a question and a whitespace-only answer.
C8_Witness ==
  /\ old.state.tag = "AddCard"
  /\ PressedSave
  /\ trim(old.state.question_input) # <<>>
  /\ old.state.answer_input # <<>>
  /\ trim(old.state.answer_input) = <<>>
  /\ state = old.state

\* C9: Enter in TopicSelection moves to FlashcardReview of the name at the
\* selection index of the sorted list, card 0, answer hidden, exactly when
\* a topic is selected and has a card; else nothing changes.
C9_EnterTopic ==
  (old.state.tag = "TopicSelection" /\ Pressed(Enter)) =>
    LET selected == old.list_state.selected
        enters == /\ selected # None
                  /\ old.topics[NameAt(old.topics, selected[1])] # <<>>
    IN /\ enters =>
            state = FlashcardReview(NameAt(old.topics, selected[1]), 0, FALSE)
       /\ ~enters => state = old.state
       /\ topics = old.topics
       /\ list_state = old.list_state
       /\ exit = old.exit

\* C9 witness: Enter on the second of two topics opened its review.
C9_Witness ==
  /\ old.state.tag = "TopicSelection"
  /\ Pressed(Enter)
  /\ old.list_state.selected = Some(1)
  /\ state.tag = "FlashcardReview"
  /\ state.topic = NameAt(topics, 1)

\* C10: 'a' in TopicSelection moves to AddCard of the name at the
\* selection index of the sorted list, with empty buffers and the question
\* edited first, when a topic is selected; with none selected nothing changes.
C10_AddCardKey ==
  (old.state.tag = "TopicSelection" /\ Pressed(Char("a"))) =>
    LET selected == old.list_state.selected
    IN /\ selected # None =>
            state = AddCard(NameAt(old.topics, selected[1]), <<>>, <<>>, TRUE)
       /\ selected = None => state = old.state
       /\ topics = old.topics
       /\ list_state = old.list_state
       /\ exit = old.exit

\* C10 witness: 'a' on the second of two topics opened AddCard for it.
C10_Witness ==
  /\ old.state.tag = "TopicSelection"
  /\ Pressed(Char("a"))
  /\ old.list_state.selected = Some(1)
  /\ state.tag = "AddCard"
  /\ state.topic = NameAt(topics, 1)

\* C11: while AddCard is open the selection stays what it was on entry and
\* names, through the sorted list, the topic of the AddCard; after a card
\* commit the selection is unchanged and still names the topic that received
\* the card; and after any event that leaves the set of names as it was, every
\* index of the sorted list names the topic it named before.
C11_SelectionResolvesAfterAddCard ==
  /\ state.tag = "AddCard" =>
       /\ list_state.selected # None
       /\ NameAt(topics, list_state.selected[1]) = state.topic
  /\ old.state.tag = "AddCard" => list_state = old.list_state
  /\ AddCommit =>
       /\ list_state.selected # None
       /\ NameAt(topics, list_state.selected[1]) = old.state.topic
       /\ get_sorted_topics(Self)[list_state.selected[1] + 1] = old.state.topic
       /\ topics[old.state.topic] # old.topics[old.state.topic]
  /\ DOMAIN topics = DOMAIN old.topics =>
       \A i \in 0..(Cardinality(DOMAIN topics) - 1) :
         get_sorted_topics(Self)[i + 1] = NameAt(old.topics, i)

\* C11 witness: a card was committed to the second of two topics and the
\* selection is still the second.
C11_Witness ==
  /\ AddCommit
  /\ old.list_state.selected = Some(1)
  /\ list_state.selected = Some(1)
  /\ old.state.topic = NameAt(topics, 1)
  /\ topics # old.topics


\* The App after n presses of key_event, each routed by handle_key_event.
RECURSIVE PressTimes(_, _, _)
PressTimes(self, key_event, n) ==
  IF n = 0 THEN self
  ELSE PressTimes(handle_key_event(self, key_event), key_event, n - 1)

\* C12: in TopicSelection with N >= 1 topics, N presses of down or 'j' bring
\* the selection back to where it is, and so do N presses of up or 'k'; with
\* no topics one press of any of them leaves the selection None.
C12_SelectionCycle ==
  state.tag = "TopicSelection" =>
    LET N == Cardinality(DOMAIN topics)
    IN \A code \in {Down, Char("j"), Up, Char("k")} :
         /\ N >= 1 =>
              /\ list_state.selected # None
              /\ PressTimes(Self, Press(code), N) = Self
         /\ N = 0 =>
              /\ list_state.selected = None
              /\ handle_key_event(Self, Press(code)).list_state.selected = None

\* C12 witness: 'k' on the first of two topics moved the selection to the
\* second, from where a second press returns it.
C12_Witness ==
  /\ old.state.tag = "TopicSelection"
  /\ Pressed(Char("k"))
  /\ Cardinality(DOMAIN topics) = 2
  /\ old.list_state.selected = Some(0)
  /\ list_state.selected = Some(1)
  /\ handle_key_event(Self, event[2]).list_state = old.list_state

\* C13: 'n' or Right in FlashcardReview of a topic with k >= 1 cards keeps
\* the topic, sets card_index to (card_index + 1) mod k and hides the answer,
\* with store, selection and exit flag unchanged; and from card_index 0, k
\* presses of the key come back to card_index 0.
C13_NextCard ==
  /\ \A code \in {Char("n"), Right} :
       (old.state.tag = "FlashcardReview" /\ Pressed(code)) =>
         LET k == Len(old.topics[old.state.topic])
         IN /\ k >= 1
            /\ state = FlashcardReview(old.state.topic,
                                       (old.state.card_index + 1) % k, FALSE)
            /\ topics = old.topics
            /\ list_state = old.list_state
            /\ exit = old.exit
  /\ \A code \in {Char("n"), Right} :
       (state.tag = "FlashcardReview" /\ state.card_index = 0) =>
         LET k == Len(topics[state.topic])
         IN /\ PressTimes(Self, Press(code), k).state.card_index = 0
            /\ \A n \in 1..(k - 1) :
                 PressTimes(Self, Press(code), n).state.card_index = n

\* C13 witness: 'n' on the last of two cards, answer shown, went back to the
\* first card with the answer hidden.
C13_Witness ==
  /\ old.state.tag = "FlashcardReview"
  /\ Pressed(Char("n"))
  /\ Len(topics[old.state.topic]) = 2
  /\ old.state.card_index = 1
  /\ old.state.show_answer
  /\ state = FlashcardReview(old.state.topic, 0, FALSE)

\* C14: 'p' or Left in FlashcardReview of a topic with k >= 1 cards keeps the
\* topic, sets card_index to k - 1 when it was 0 and to card_index - 1
\* otherwise, and hides the answer, with store, selection and exit flag
\* unchanged; a next key followed by a previous key, or a previous key
\* followed by a next key, gives back the card_index it started from.
C14_PreviousCard ==
  /\ \A code \in {Char("p"), Left} :
       (old.state.tag = "FlashcardReview" /\ Pressed(code)) =>
         LET k == Len(old.topics[old.state.topic])
             i == old.state.card_index
         IN /\ k >= 1
            /\ state = FlashcardReview(old.state.topic,
                                       IF i = 0 THEN k - 1 ELSE i - 1, FALSE)
            /\ topics = old.topics
            /\ list_state = old.list_state
            /\ exit = old.exit
  /\ state.tag = "FlashcardReview" =>
       \A next \in {Char("n"), Right}, prev \in {Char("p"), Left} :
         LET next_prev == handle_key_event(handle_key_event(Self, Press(next)),
                                           Press(prev))
             prev_next == handle_key_event(handle_key_event(Self, Press(prev)),
                                           Press(next))
         IN /\ next_prev.state.card_index = state.card_index
            /\ prev_next.state.card_index = state.card_index
            /\ next_prev.state.topic = state.topic
            /\ prev_next.state.topic = state.topic

\* C14 witness: Left on the first of two cards, answer shown, went to the
\* last card with the answer hidden.
C14_Witness ==
  /\ old.state.tag = "FlashcardReview"
  /\ Pressed(Left)
  /\ Len(topics[old.state.topic]) = 2
  /\ old.state.card_index = 0
  /\ old.state.show_answer
  /\ state = FlashcardReview(old.state.topic, 1, FALSE)

C16_Flip ==
  \A code \in {Char(" "), Enter} :
    /\ (old.state.tag = "FlashcardReview" /\ Pressed(code)) =>
         /\ state = FlashcardReview(old.state.topic, old.state.card_index,
                                    ~old.state.show_answer)
         /\ topics = old.topics
         /\ list_state = old.list_state
         /\ exit = old.exit
    /\ state.tag = "FlashcardReview" =>
         /\ PressTimes(Self, Press(code), 1) # Self
         /\ PressTimes(Self, Press(code), 2) = Self

\* C16 witness: space on the second card with the answer shown hid it.
C16_Witness ==
  /\ old.state.tag = "FlashcardReview"
  /\ Pressed(Char(" "))
  /\ old.state.card_index = 1
  /\ old.state.show_answer
  /\ state = FlashcardReview(old.state.topic, 1, FALSE)

\* The modes entered from TopicSelection.
EnteredModes == {"FlashcardReview", "CreateTopic", "AddCard"}

\* The keys that leave a mode without a commit: Esc in each, and 'q' in
\* FlashcardReview.
LeavesMode ==
  \/ old.state.tag \in EnteredModes /\ Pressed(Esc)
  \/ old.state.tag = "FlashcardReview" /\ Pressed(Char("q"))

\* C17: Esc in FlashcardReview, CreateTopic or AddCard, and 'q' in
\* FlashcardReview, moves to TopicSelection, which holds no buffer, with the
\* store, the selection and the exit flag unchanged; and the selection is
\* what it was when the mode was entered, since entering the mode from
\* TopicSelection and every event handled in the mode other than a topic
\* commit leave the selection as it was.
C17_CancelKeepsSelection ==
  /\ LeavesMode =>
       /\ state = TopicSelection
       /\ topics = old.topics
       /\ list_state = old.list_state
       /\ exit = old.exit
  /\ (old.state.tag = "TopicSelection" /\ state.tag \in EnteredModes) =>
       list_state = old.list_state
  /\ (old.state.tag \in EnteredModes /\ ~CreateCommit) =>
       list_state = old.list_state

\* C17 witness: Esc in CreateTopic on a typed buffer, entered with the second
\* topic selected, came back to TopicSelection with the second still selected.
C17_Witness ==
  /\ old.state.tag = "CreateTopic"
  /\ Pressed(Esc)
  /\ old.state.input # <<>>
  /\ old.list_state.selected = Some(1)
  /\ state = TopicSelection
  /\ list_state.selected = Some(1)

\* main has not yet called save_to_disk.
BeforeSave == pc \in {"init", "clear", "load", "run", "restore", "save"}

C19_TerminalRestored ==
  pc = "done" => terminal # "raw"

\* C20: main returns what run returned, whether save_to_disk succeeded or
\* failed: a failed save makes no error of an Ok and an Ok save hides no
\* error of the loop; and save_to_disk is called once, not again after it
\* failed.
C20_MainReturnsLoopResult ==
  /\ (pc = "done" /\ app_result # "none") =>
       /\ main_result = app_result
       /\ save_result \in {"Ok", "Err"}
       /\ Len(written) = 1
  /\ pc # "done" => main_result = "none"
  /\ Len(written) <= 1

\* C20 witness: the loop ended Ok on the quit key, the save failed, and main
\* returned Ok.
C20_Witness ==
  /\ pc = "done"
  /\ exit
  /\ app_result = "Ok"
  /\ save_result = "Err"
  /\ main_result = "Ok"

\* C21: when main loads from a file that is absent or does not deserialize,
\* no error comes of it: main goes on into run with an empty store, the
\* state TopicSelection, no topic selected and the exit flag unset.
C21_LoadFallback ==
  [][(pc = "load" /\ file.kind # "json") =>
       /\ topics' = <<>>
       /\ DOMAIN topics' = {}
       /\ state' = TopicSelection
       /\ list_state'.selected = None
       /\ ~exit'
       /\ pc' = "run"
       /\ main_result' = "none"
       /\ app_result' = "none"
       /\ file' = file]_vars

\* C21 witness: main is in run on the empty store it made of a file of bad
\* data.
C21_Witness ==
  /\ pc = "run"
  /\ file = BadData
  /\ topics = <<>>
  /\ state = TopicSelection
  /\ list_state.selected = None
  /\ ~exit

\* A store whose strings hold what the JSON text escapes: a line break, a
\* quote, a backslash, and a backslash before an 'n'.
EscapedStore ==
  [name \in {<<"\"", "m">>} |->
     <<Flashcard(<<"2", "\n", "\\", "n">>, <<"\\", "4">>)>>]

\* C22: from an empty store the keys of the scenario create the topic
\* "math", add to it the card "2+2?" / "4", enter its review and flip the
\* card: when they are all handled the state is FlashcardReview of "math",
\* card 0, answer shown, and the store is "math" with that one card. A store
\* that save_to_disk has written loads again as the same store, and so does
\* a store of strings that the JSON text escapes.
C22_MathScenario ==
  /\ (pc = "run" /\ script = ScenarioKeys \o QuitKeys) => topics = <<>>
  /\ script = QuitKeys =>
       /\ state = FlashcardReview(Math, 0, TRUE)
       /\ topics = MathStore
       /\ DOMAIN topics = {Math}
       /\ Len(topics[Math]) = 1
       /\ topics[Math][1].answer = MathAnswer
  /\ (save_result = "Ok" /\ pc \in {"return", "done"}) =>
       /\ file.kind = "json"
       /\ load(file) = topics
  /\ load(JsonFile(to_json(MathStore))) = MathStore
  /\ load(JsonFile(to_json(EscapedStore))) = EscapedStore

\* C22 witness: the loop ended after the flip, in FlashcardReview of "math"
\* with the answer shown; the store was saved and the file loads as "math"
\* with the one card.
C22_Witness ==
  /\ pc = "done"
  /\ script = QuitKeys
  /\ state = FlashcardReview(Math, 0, TRUE)
  /\ save_result = "Ok"
  /\ load(file) = MathStore
  /\ topics = MathStore

\* The last event read was a key release, a key repeat, or no key event.
NotAPress ==
  /\ event # <<>>
  /\ \/ event[1] # "Key"
     \/ event[2].kind \in {"Release", "Repeat"}

\* C23: an event that is a key release, a key repeat or not a key event
\* leaves the state, the selection, the exit flag and the store as they were,
\* in every mode.
C23_OnlyPressRouted ==
  NotAPress =>
    /\ state = old.state
    /\ list_state = old.list_state
    /\ exit = old.exit
    /\ topics = old.topics
    /\ ~panicked

\* C23 witness: the release of Enter in CreateTopic on a buffer that a press
\* of Enter would commit left the buffer and the store as they were.
C23_Witness ==
  /\ event = <<"Key", KeyEvent(Enter, {}, "Release")>>
  /\ old.state.tag = "CreateTopic"
  /\ trim(old.state.input) # <<>>
  /\ trim(old.state.input) \notin DOMAIN old.topics
  /\ state = old.state
  /\ topics = old.topics

\* The buffer s after backspace: without its last character, empty if empty.
WithoutLast(s) == IF s = <<>> THEN <<>> ELSE SubSeq(s, 1, Len(s) - 1)

\* The AddCard state old.state with after in place of the buffer that
\* editing_question selects, and all else as it was.
EditedTo(after) ==
  IF old.state.editing_question
  THEN AddCard(old.state.topic, after, old.state.answer_input, TRUE)
  ELSE AddCard(old.state.topic, old.state.question_input, after, FALSE)

\* The buffer of old.state that editing_question selects.
EditedBuffer ==
  IF old.state.editing_question THEN old.state.question_input
  ELSE old.state.answer_input

\* C24: in AddCard, Tab negates editing_question and keeps both buffers;
\* Enter appends a line break, a character key other than the save-combo
\* appends its character, and backspace removes the last character (none of
\* an empty buffer), each in the buffer editing_question selects; the other
\* buffer, the topic, the flag, the mode, the store, the selection and the
\* exit flag stay. An 's' pressed with no modifier is such a character key.
C24_AddCardEditing ==
  /\ (old.state.tag = "AddCard" /\ IsPress(event)
      /\ (event[2].code \in {Tab, Enter, Backspace}
          \/ (event[2].code[1] = "Char" /\ ~PressedSave))) =>
       /\ topics = old.topics
       /\ list_state = old.list_state
       /\ exit = old.exit
       /\ Pressed(Tab) =>
            state = AddCard(old.state.topic, old.state.question_input,
                            old.state.answer_input, ~old.state.editing_question)
       /\ Pressed(Enter) => state = EditedTo(Append(EditedBuffer, "\n"))
       /\ event[2].code[1] = "Char" =>
            state = EditedTo(Append(EditedBuffer, event[2].code[2]))
       /\ Pressed(Backspace) => state = EditedTo(WithoutLast(EditedBuffer))
  /\ state.tag = "AddCard" =>
       LET typed == handle_key_event(Self, Press(Char("s"))).state
           buffer == IF state.editing_question THEN state.question_input
                     ELSE state.answer_input
       IN /\ typed.tag = "AddCard"
          /\ typed.editing_question = state.editing_question
          /\ (IF state.editing_question THEN typed.question_input
              ELSE typed.answer_input) = Append(buffer, "s")
          /\ (IF state.editing_question THEN typed.answer_input
              ELSE typed.question_input) =
             (IF state.editing_question THEN state.answer_input
              ELSE state.question_input)

\* C24 witness: Enter while the answer is edited, after a question was
\* typed, broke the line of the answer and left the question.
C24_Witness ==
  /\ old.state.tag = "AddCard"
  /\ Pressed(Enter)
  /\ ~old.state.editing_question
  /\ old.state.question_input # <<>>
  /\ state.tag = "AddCard"
  /\ state.answer_input = Append(old.state.answer_input, "\n")
  /\ state.question_input = old.state.question_input

\* C25: in CreateTopic a character key appends its character to the end of
\* the buffer and backspace removes the last character, none of an empty
\* buffer; both stay in CreateTopic and leave the store, the selection and
\* the exit flag as they were. The buffer is empty when CreateTopic is
\* entered, so it is the characters typed with the backspaces applied in
\* order. A character pressed with a modifier is appended as well.
C25_CreateTopicEditing ==
  /\ (old.state.tag = "CreateTopic" /\ IsPress(event)
      /\ (event[2].code[1] = "Char" \/ event[2].code = Backspace)) =>
       /\ event[2].code[1] = "Char" =>
            state = CreateTopic(Append(old.state.input, event[2].code[2]))
       /\ Pressed(Backspace) => state = CreateTopic(WithoutLast(old.state.input))
       /\ topics = old.topics
       /\ list_state = old.list_state
       /\ exit = old.exit
  /\ (old.state.tag # "CreateTopic" /\ state.tag = "CreateTopic") =>
       state = CreateTopic(<<>>)
  /\ state.tag = "CreateTopic" =>
       handle_key_event(Self, KeyEvent(Char("s"), {"CONTROL"}, "Press")).state
         = CreateTopic(Append(state.input, "s"))

\* C25 witness: backspace on a buffer of two characters left the first.
C25_Witness ==
  /\ old.state.tag = "CreateTopic"
  /\ Pressed(Backspace)
  /\ Len(old.state.input) = 2
  /\ state = CreateTopic(<<old.state.input[1]>>)

\* The key codes that the match of a mode's handler has an arm for.
HasRule(tag, code) ==
  CASE tag = "TopicSelection" ->
         code \in {Char("q"), Char("n"), Char("a"), Enter, Down, Char("j"), Up, Char("k")}
    [] tag = "FlashcardReview" ->
         code \in {Char("q"), Esc, Char(" "), Enter, Char("n"), Right, Char("p"), Left}
    [] tag = "CreateTopic" ->
         code \in {Esc, Enter, Backspace} \/ code[1] = "Char"
    [] tag = "AddCard" ->
         code \in {Esc, Tab, Enter, Backspace} \/ code[1] = "Char"

\* C26: in each mode a pressed key that the mode has no rule for leaves the
\* state, the selection, the exit flag and the store as they were; and a key
\* acts by the rule of the mode it is pressed in: 'n' in FlashcardReview
\* moves to the next card and opens no CreateTopic, 'a' there opens no
\* AddCard, and the selection keys of TopicSelection move no selection in
\* another mode.
C26_UnlistedKeysIgnored ==
  /\ (IsPress(event) /\ ~HasRule(old.state.tag, event[2].code)) =>
       /\ state = old.state
       /\ list_state = old.list_state
       /\ exit = old.exit
       /\ topics = old.topics
  /\ (old.state.tag = "FlashcardReview" /\ Pressed(Char("n"))) =>
       /\ state.tag = "FlashcardReview"
       /\ state.topic = old.state.topic
  /\ (old.state.tag = "FlashcardReview" /\ Pressed(Char("a"))) => state = old.state
  /\ (old.state.tag # "TopicSelection" /\ IsPress(event)
      /\ event[2].code \in {Down, Up, Char("j"), Char("k")}) =>
       list_state = old.list_state

\* C26 witness: Home in TopicSelection with the second of two topics
\* selected changed nothing.
C26_Witness ==
  /\ old.state.tag = "TopicSelection"
  /\ Pressed(Home)
  /\ old.list_state.selected = Some(1)
  /\ Self = old

\* C27: the exit flag is set only by 'q' pressed in TopicSelection; 'q' in
\* FlashcardReview goes back to TopicSelection and 'q' in CreateTopic or
\* AddCard is appended to the buffer edited, none of them setting the flag;
\* and no event handled with the flag set would unset it.
C27_ExitOnlyByQuit ==
  /\ exit => (old.state.tag = "TopicSelection" /\ Pressed(Char("q")) /\ ~old.exit)
  /\ (old.state.tag = "TopicSelection" /\ Pressed(Char("q"))) => exit
  /\ (old.state.tag = "FlashcardReview" /\ Pressed(Char("q"))) =>
       state = TopicSelection /\ ~exit
  /\ (old.state.tag = "CreateTopic" /\ Pressed(Char("q"))) =>
       state = CreateTopic(Append(old.state.input, "q")) /\ ~exit
  /\ (old.state.tag = "AddCard" /\ Pressed(Char("q"))) =>
       state = EditedTo(Append(EditedBuffer, "q")) /\ ~exit
  /\ \A ev \in Events : handle_events([Self EXCEPT !.exit = TRUE], ev).exit

\* C27 witness: 'q' in TopicSelection on a store with topics set the flag.
C27_Witness ==
  /\ old.state.tag = "TopicSelection"
  /\ Pressed(Char("q"))
  /\ DOMAIN topics # {}
  /\ ~old.exit
  /\ exit

\* C28: in every state of mode AddCard the topic is a key of the store; so
\* the save arm always finds the topic's cards, and every save-combo that
\* leaves AddCard adds exactly one card to that topic.
C28_AddCardTopicIsKey ==
  /\ state.tag = "AddCard" => state.topic \in DOMAIN topics
  /\ (old.state.tag = "AddCard" /\ PressedSave /\ state.tag # "AddCard") =>
       /\ old.state.topic \in DOMAIN old.topics
       /\ old.state.topic \in DOMAIN topics
       /\ Len(topics[old.state.topic]) = Len(old.topics[old.state.topic]) + 1
       /\ AddCommit

\* C28 witness: a save-combo left AddCard and the topic, which had one card,
\* has two.
C28_Witness ==
  /\ old.state.tag = "AddCard"
  /\ PressedSave
  /\ state = TopicSelection
  /\ Len(old.topics[old.state.topic]) = 1
  /\ Len(topics[old.state.topic]) = 2
====
